---- MODULE Spec2Model ----
(***************************************************************************)
(* Model of src/main.cpp: a camera viewer built on a capture device, an    *)
(* image library and a GUI toolkit.  The program state is the global       *)
(* CameraApp struct `app`; the operations are main (open, probe, set up),  *)
(* the timer callback update_frame, the button callback                    *)
(* screenshot_callback and the window callback window_close_callback.      *)
(*                                                                         *)
(* Frame rates are doubles in the source; the model keeps them in tenths   *)
(* of a frame per second (60 fps is 600), so the tolerance 1.0 is 10.      *)
(***************************************************************************)
EXTENDS Integers, Sequences, FiniteSets, TLC

VARIABLES
    pc,             \* position of main: "start", "opened", "res_done", "fps_done",
                    \* "running" (inside Fl::run), "exited", "open_failed", "crashed"
    exit_code,      \* value returned by main (0 while it has not returned)
    dev_res,        \* the device: read-back resolution for each candidate request
    dev_fps,        \* the device: read-back frame rate for each candidate request
    cap_open,       \* app.cap holds an open device session
    cap_mode,       \* resolution the device session currently reports
    cap_fps,        \* frame rate the device session currently reports
    res_probes,     \* how many resolution candidates detect_resolutions requested
    fps_probes,     \* how many frame-rate candidates detect_fps requested
    cap_releases,   \* how many times an open device session was released
    optimal_width,  \* app.optimal_width
    optimal_height, \* app.optimal_height
    optimal_fps,    \* app.optimal_fps (tenths)
    is_running,     \* app.is_running
    frame,          \* app.frame
    frame_rgb,      \* app.frame_rgb
    cached_frame,   \* app.cached_frame (the Display Buffer)
    fltk_img,       \* app.fltk_img: 0 is nullptr, otherwise the image's identity
    box_image,      \* the image attached to app.display_box (0: none)
    live_imgs,      \* identities of the Fl_RGB_Image objects that exist
    img_next,       \* number of Fl_RGB_Image objects created so far
    double_deletes, \* how many times `delete` was applied to a deleted image
    shown,          \* app.window is shown
    timeouts,       \* number of update_frame timeouts pending in the toolkit
    timeout_delay,  \* delay of the last timeout added, in seconds: << num, den >>
    ticks,          \* invocations of update_frame
    frames_done,    \* invocations of update_frame that ran to the end
    grabs,          \* calls of app.cap.grab()
    retrieves,      \* calls of app.cap.retrieve()
    snaps,          \* invocations of screenshot_callback
    closes,         \* invocations of window_close_callback
    shot_time,      \* wall-clock time read by the last screenshot_callback
    imwrites,       \* calls of cv::imwrite
    imwrite_name,   \* file name of the last cv::imwrite call
    imwrite_data,   \* image handed to the last cv::imwrite call
    imwrite_ok,     \* outcome of the last cv::imwrite call
    files,          \* names of the files written successfully
    dialog,         \* last dialog shown to the user
    dialog_text     \* file name the last success dialog reports

vars == << pc, exit_code, dev_res, dev_fps, cap_open, cap_mode, cap_fps, res_probes,
           fps_probes, cap_releases, optimal_width, optimal_height, optimal_fps,
           is_running, frame, frame_rgb, cached_frame, fltk_img, box_image,
           live_imgs, img_next, double_deletes, shown, timeouts, timeout_delay,
           ticks, frames_done, grabs, retrieves, snaps, closes, shot_time, imwrites,
           imwrite_name, imwrite_data, imwrite_ok, files, dialog, dialog_text >>

(***************************************************************************)
(* Bounds of the model.                                                    *)
(***************************************************************************)
MaxTicks == 3
MaxSnaps == 2
MaxCloses == 2

(***************************************************************************)
(* Program constants.                                                      *)
(***************************************************************************)
DefaultWidth == 640
DefaultHeight == 480
DefaultFps == 300
FpsTolerance == 10
OpenFailedCode == -1

resolutions ==
    << <<3840, 2160>>, <<2560, 1440>>, <<1920, 1080>>,
       <<1280, 720>>, <<1280, 960>>, <<800, 600>>, <<640, 480>> >>

fps_candidates == << 600, 500, 300, 250, 240, 150, 100 >>

Abs(x) == IF x < 0 THEN -x ELSE x

(***************************************************************************)
(* cv::Mat: size, pixel content and channel order.  An empty Mat has no    *)
(* columns and no rows.                                                    *)
(***************************************************************************)
EmptyMat == [w |-> 0, h |-> 0, px |-> 0, order |-> "none"]

MatEmpty(m) == m.w = 0 \/ m.h = 0

MatCreate(m, h, w) ==
    IF m.w = w /\ m.h = h /\ m.order # "none" THEN {m}
    ELSE { [w |-> w, h |-> h, px |-> g, order |-> "RGB"] : g \in {0, 1} }

ResizeSkipped(m, w, h) == m

Resize(m, w, h) == [m EXCEPT !.w = w, !.h = h]

SwapRB(o) == IF o = "BGR" THEN "RGB" ELSE IF o = "RGB" THEN "BGR" ELSE o

CvtColor(m) == [m EXCEPT !.order = SwapRB(m.order)]

CopyTo(m) == m

(***************************************************************************)
(* detect_resolutions: the loop over the candidate list, from candidate i  *)
(* on.  dev[i] is what the device reports after candidate i was requested. *)
(* The result holds the negotiated size, the number of candidates          *)
(* requested and the mode the device session is left in.                   *)
(***************************************************************************)
ResMatchesWidthOnly(actual, res) == actual[1] = res[1]

ResMatches(actual, res) == actual[1] = res[1] /\ actual[2] = res[2]

RECURSIVE detect_resolutions_no_stop(_, _, _, _)
detect_resolutions_no_stop(dev, i, w0, h0) ==
    IF i > Len(resolutions)
    THEN [w |-> w0, h |-> h0, probes |-> i - 1, mode |-> dev[i - 1]]
    ELSE IF ResMatches(dev[i], resolutions[i])
         THEN detect_resolutions_no_stop(dev, i + 1, dev[i][1], dev[i][2])
         ELSE detect_resolutions_no_stop(dev, i + 1, w0, h0)

RECURSIVE detect_resolutions(_, _, _, _)
detect_resolutions(dev, i, w0, h0) ==
    IF i > Len(resolutions)
    THEN [w |-> w0, h |-> h0, probes |-> i - 1, mode |-> dev[i - 1]]
    ELSE IF ResMatches(dev[i], resolutions[i])
         THEN [w |-> dev[i][1], h |-> dev[i][2], probes |-> i, mode |-> dev[i]]
         ELSE detect_resolutions(dev, i + 1, w0, h0)

(***************************************************************************)
(* detect_fps: the loop over the frame-rate candidates, and the fallback   *)
(* to what the device reports when no candidate was accepted.              *)
(***************************************************************************)
FpsMatchesInclusive(actual_fps, fps) == Abs(actual_fps - fps) <= FpsTolerance

FpsMatches(actual_fps, fps) == Abs(actual_fps - fps) < FpsTolerance

RECURSIVE detect_fps(_, _)
detect_fps(dev, i) ==
    IF i > Len(fps_candidates)
    THEN [fps |-> dev[i - 1], probes |-> i - 1, mode |-> dev[i - 1]]
    ELSE IF FpsMatches(dev[i], fps_candidates[i])
         THEN [fps |-> dev[i], probes |-> i, mode |-> dev[i]]
         ELSE detect_fps(dev, i + 1)

(***************************************************************************)
(* The file name of a screenshot: "screenshot_" + std::to_string(t) +      *)
(* ".png", as a sequence of characters.                                    *)
(***************************************************************************)
DigitChars == << "0", "1", "2", "3", "4", "5", "6", "7", "8", "9" >>

RECURSIVE to_string_lsd_first(_)
to_string_lsd_first(n) ==
    IF n < 0 THEN << "-" >> \o to_string_lsd_first(-n)
    ELSE IF n < 10 THEN << DigitChars[n + 1] >>
    ELSE << DigitChars[(n % 10) + 1] >> \o to_string_lsd_first(n \div 10)

RECURSIVE to_string(_)
to_string(n) ==
    IF n < 0 THEN << "-" >> \o to_string(-n)
    ELSE IF n < 10 THEN << DigitChars[n + 1] >>
    ELSE to_string(n \div 10) \o << DigitChars[(n % 10) + 1] >>

ScreenshotPrefix == << "s", "c", "r", "e", "e", "n", "s", "h", "o", "t", "_" >>

PngSuffix == << ".", "p", "n", "g" >>

ScreenshotName(now_time) == ScreenshotPrefix \o to_string(now_time) \o PngSuffix

(***************************************************************************)
(* The environment: devices, decoded frames and wall-clock times.          *)
(***************************************************************************)
Candidates == 1 .. Len(resolutions)

FpsIndexes == 1 .. Len(fps_candidates)

ResReadBack(i, k) ==
    CASE k = 1 -> resolutions[i]
      [] k = 2 -> << resolutions[i][1], 240 >>
      [] k = 3 -> << 320, resolutions[i][2] >>
      [] OTHER -> << 320, 240 >>

FpsReadBack(i, k) ==
    CASE k = 1 -> fps_candidates[i]
      [] k = 2 -> fps_candidates[i] - 1
      [] k = 3 -> fps_candidates[i] - FpsTolerance
      [] OTHER -> 0

AllResDevices == { [i \in Candidates |-> ResReadBack(i, c[i])] : c \in [Candidates -> 1 .. 4] }

AllFpsDevices == { [i \in FpsIndexes |-> FpsReadBack(i, c[i])] : c \in [FpsIndexes -> 1 .. 4] }

ResDevice(accepted) ==
    [i \in Candidates |-> IF i \in accepted THEN resolutions[i] ELSE << 320, 240 >>]

FpsDevice(accepted, delta) ==
    [i \in FpsIndexes |-> IF i \in accepted THEN fps_candidates[i] - delta ELSE 0]

ResProfiles == { ResDevice({}), ResDevice(3 .. 7), ResDevice({4, 5}) }

FpsProfiles == { FpsDevice({}, 0), FpsDevice(3 .. 7, 0), FpsDevice({1}, 1) }

FramePixels == {1, 2}

FrameSizes == { << 320, 240 >>, << 1920, 1080 >> }

Times == {0, 7, 1762194000}

(***************************************************************************)
(* The state after the construction of the global `app`, with a device.    *)
(***************************************************************************)
InitApp ==
    /\ pc = "start"
    /\ exit_code = 0
    /\ cap_open = FALSE
    /\ cap_mode = << 0, 0 >>
    /\ cap_fps = 0
    /\ res_probes = 0
    /\ fps_probes = 0
    /\ cap_releases = 0
    /\ optimal_width = DefaultWidth
    /\ optimal_height = DefaultHeight
    /\ optimal_fps = DefaultFps
    /\ is_running = TRUE
    /\ frame = EmptyMat
    /\ frame_rgb = EmptyMat
    /\ cached_frame = EmptyMat
    /\ fltk_img = 0
    /\ box_image = 0
    /\ live_imgs = {}
    /\ img_next = 0
    /\ double_deletes = 0
    /\ shown = FALSE
    /\ timeouts = 0
    /\ timeout_delay = << 0, 1 >>
    /\ ticks = 0
    /\ frames_done = 0
    /\ grabs = 0
    /\ retrieves = 0
    /\ snaps = 0
    /\ closes = 0
    /\ shot_time = 0
    /\ imwrites = 0
    /\ imwrite_name = << >>
    /\ imwrite_data = EmptyMat
    /\ imwrite_ok = FALSE
    /\ files = {}
    /\ dialog = "none"
    /\ dialog_text = << >>

Init ==
    /\ InitApp
    /\ dev_res \in ResProfiles
    /\ dev_fps \in FpsProfiles

appVars == << optimal_width, optimal_height, optimal_fps, is_running, frame, frame_rgb,
              cached_frame, fltk_img, box_image, live_imgs, img_next, double_deletes >>

capVars == << cap_open, cap_mode, cap_fps, res_probes, fps_probes, cap_releases >>

tickVars == << timeouts, timeout_delay, ticks, frames_done, grabs, retrieves >>

shotVars == << snaps, shot_time, imwrites, imwrite_name, imwrite_data, imwrite_ok,
              files, dialog_text >>

(***************************************************************************)
(* main, lines 156-160: open the device, or leave with -1.                 *)
(***************************************************************************)
OpenWithoutReturn ==
    /\ pc = "start"
    /\ \E isOpened \in BOOLEAN :
          IF isOpened
          THEN /\ cap_open' = TRUE
               /\ pc' = "opened"
               /\ UNCHANGED << dialog, exit_code >>
          ELSE /\ dialog' = "open_failed"
               /\ pc' = "opened"
               /\ UNCHANGED << cap_open, exit_code >>
    /\ UNCHANGED << dev_res, dev_fps, cap_mode, cap_fps, res_probes, fps_probes,
                    cap_releases, appVars, shown, tickVars, shotVars, closes >>

Open ==
    /\ pc = "start"
    /\ \E isOpened \in BOOLEAN :
          IF isOpened
          THEN /\ cap_open' = TRUE
               /\ pc' = "opened"
               /\ UNCHANGED << dialog, exit_code >>
          ELSE /\ dialog' = "open_failed"
               /\ exit_code' = OpenFailedCode
               /\ pc' = "open_failed"
               /\ UNCHANGED cap_open
    /\ UNCHANGED << dev_res, dev_fps, cap_mode, cap_fps, res_probes, fps_probes,
                    cap_releases, appVars, shown, tickVars, shotVars, closes >>

(***************************************************************************)
(* main, line 163: detect_resolutions().                                   *)
(***************************************************************************)
DetectResolutions ==
    /\ pc = "opened"
    /\ LET r == detect_resolutions(dev_res, 1, optimal_width, optimal_height)
       IN  /\ optimal_width' = r.w
           /\ optimal_height' = r.h
           /\ res_probes' = r.probes
           /\ cap_mode' = r.mode
    /\ pc' = "res_done"
    /\ UNCHANGED << exit_code, dev_res, dev_fps, cap_open, cap_fps, fps_probes,
                    cap_releases, optimal_fps, is_running, frame, frame_rgb,
                    cached_frame, fltk_img, box_image, live_imgs, img_next,
                    double_deletes, shown, tickVars, shotVars, closes, dialog >>

(***************************************************************************)
(* main, line 164: detect_fps().                                           *)
(***************************************************************************)
DetectFps ==
    /\ pc = "res_done"
    /\ LET r == detect_fps(dev_fps, 1)
       IN  /\ optimal_fps' = r.fps
           /\ fps_probes' = r.probes
           /\ cap_fps' = r.mode
    /\ pc' = "fps_done"
    /\ UNCHANGED << exit_code, dev_res, dev_fps, cap_open, cap_mode, res_probes,
                    cap_releases, optimal_width, optimal_height, is_running, frame,
                    frame_rgb, cached_frame, fltk_img, box_image, live_imgs,
                    img_next, double_deletes, shown, tickVars, shotVars, closes,
                    dialog >>

(***************************************************************************)
(* The toolkit's timeouts.  Fl::add_timeout and Fl::repeat_timeout add one *)
(* pending timeout.  A delay is a quotient of doubles: 1.0 / optimal_fps   *)
(* with optimal_fps = 0 is +infinity, a delay that never elapses.          *)
(***************************************************************************)
AddTimeout(pending) == pending + 1

RepeatTimeoutTwice(pending) == pending + 2

RepeatTimeout(pending) == pending + 1

RepeatDelay(fps) == << 10, fps >>

TimeoutElapses(delay) == delay[2] # 0

(***************************************************************************)
(* `delete` of an Fl_RGB_Image: the image no longer exists.                *)
(***************************************************************************)
DeleteImageLeaked(imgs, img) == imgs

DeleteImage(imgs, img) == imgs \ {img}

(***************************************************************************)
(* main, lines 166-200: allocate the buffers, build and show the window,   *)
(* add the first timeout and enter Fl::run().                              *)
(***************************************************************************)
Setup ==
    /\ pc = "fps_done"
    /\ frame_rgb' \in MatCreate(frame_rgb, optimal_height, optimal_width)
    /\ cached_frame' \in MatCreate(cached_frame, optimal_height, optimal_width)
    /\ shown' = TRUE
    /\ timeouts' = AddTimeout(timeouts)
    /\ timeout_delay' = << 0, 1 >>
    /\ pc' = "running"
    /\ UNCHANGED << exit_code, dev_res, dev_fps, capVars, optimal_width,
                    optimal_height, optimal_fps, is_running, frame, fltk_img,
                    box_image, live_imgs, img_next, double_deletes, ticks,
                    frames_done, grabs, retrieves, shotVars, closes, dialog >>

(***************************************************************************)
(* update_frame, lines 95-141: one firing of the timeout.  The inputs are  *)
(* the outcomes of grab() and retrieve() and the frame the device decodes. *)
(***************************************************************************)
TickRunsAlways == TRUE

TickRuns == is_running

GrabFailed_keeps_running == is_running

GrabFailed_is_running == FALSE

RetrieveFailed_keeps_running == is_running

RetrieveFailed_is_running == FALSE

DecodedFrame(px, size) == [w |-> size[1], h |-> size[2], px |-> px, order |-> "BGR"]

UpdateFrame ==
    /\ pc = "running"
    /\ timeouts > 0
    /\ TimeoutElapses(timeout_delay)
    /\ ticks < MaxTicks
    /\ ticks' = ticks + 1
    /\ IF ~TickRuns
       THEN /\ timeouts' = timeouts - 1
            /\ UNCHANGED << appVars, timeout_delay, frames_done, grabs, retrieves,
                            dialog >>
       ELSE \E grabbed \in BOOLEAN, retrieved \in BOOLEAN,
               px \in FramePixels, size \in FrameSizes \cup {cap_mode} :
            /\ grabs' = grabs + 1
            /\ IF ~grabbed
               THEN /\ dialog' = "grab_failed"
                    /\ is_running' = GrabFailed_is_running
                    /\ timeouts' = timeouts - 1
                    /\ UNCHANGED << optimal_width, optimal_height, optimal_fps, frame,
                                    frame_rgb, cached_frame, fltk_img, box_image,
                                    live_imgs, img_next, double_deletes, frames_done,
                                    retrieves, timeout_delay >>
               ELSE /\ retrieves' = retrieves + 1
                    /\ IF ~retrieved
                       THEN /\ dialog' = "decode_failed"
                            /\ is_running' = RetrieveFailed_is_running
                            /\ frame' \in {frame, EmptyMat}
                            /\ timeouts' = timeouts - 1
                            /\ UNCHANGED << optimal_width, optimal_height, optimal_fps,
                                            frame_rgb, cached_frame, fltk_img,
                                            box_image, live_imgs, img_next,
                                            double_deletes, frames_done,
                                            timeout_delay >>
                       ELSE /\ frame' = Resize(DecodedFrame(px, size),
                                               optimal_width, optimal_height)
                            /\ frame_rgb' = CvtColor(frame')
                            /\ cached_frame' = CopyTo(frame_rgb')
                            /\ double_deletes' =
                                  IF fltk_img # 0 /\ fltk_img \notin live_imgs
                                  THEN double_deletes + 1 ELSE double_deletes
                            /\ img_next' = img_next + 1
                            /\ live_imgs' = DeleteImage(live_imgs, fltk_img) \cup {img_next'}
                            /\ fltk_img' = img_next'
                            /\ box_image' = fltk_img'
                            /\ timeouts' = RepeatTimeout(timeouts - 1)
                            /\ timeout_delay' = RepeatDelay(optimal_fps)
                            /\ frames_done' = frames_done + 1
                            /\ UNCHANGED << optimal_width, optimal_height, optimal_fps,
                                            is_running, dialog >>
    /\ UNCHANGED << pc, exit_code, dev_res, dev_fps, capVars, shown, shotVars, closes >>

(***************************************************************************)
(* screenshot_callback, lines 70-92.  The inputs are the wall-clock time   *)
(* and the outcome of cv::imwrite.                                         *)
(***************************************************************************)
ScreenshotCallbackInPlace ==
    /\ pc = "running"
    /\ snaps < MaxSnaps
    /\ snaps' = snaps + 1
    /\ IF MatEmpty(cached_frame)
       THEN /\ dialog' = "shot_empty"
            /\ UNCHANGED << shot_time, imwrites, imwrite_name, imwrite_data,
                            imwrite_ok, files, dialog_text >>
       ELSE \E now_time \in Times, written \in BOOLEAN :
            LET filename == ScreenshotName(now_time)
                bgr_frame == CvtColor(cached_frame)
            IN  /\ shot_time' = now_time
                /\ imwrites' = imwrites + 1
                /\ imwrite_name' = filename
                /\ imwrite_data' = bgr_frame
                /\ imwrite_ok' = written
                /\ IF written
                   THEN /\ files' = files \cup {filename}
                        /\ dialog' = "shot_ok"
                        /\ dialog_text' = filename
                   ELSE /\ dialog' = "shot_write_failed"
                        /\ UNCHANGED << files, dialog_text >>
    /\ cached_frame' = IF MatEmpty(cached_frame) THEN cached_frame
                       ELSE CvtColor(cached_frame)
    /\ UNCHANGED << pc, exit_code, dev_res, dev_fps, capVars, optimal_width,
                    optimal_height, optimal_fps, is_running, frame, frame_rgb,
                    fltk_img, box_image, live_imgs, img_next, double_deletes,
                    shown, tickVars, closes >>

ScreenshotCallback ==
    /\ pc = "running"
    /\ snaps < MaxSnaps
    /\ snaps' = snaps + 1
    /\ IF MatEmpty(cached_frame)
       THEN /\ dialog' = "shot_empty"
            /\ UNCHANGED << shot_time, imwrites, imwrite_name, imwrite_data,
                            imwrite_ok, files, dialog_text >>
       ELSE \E now_time \in Times, written \in BOOLEAN :
            LET filename == ScreenshotName(now_time)
                bgr_frame == CvtColor(cached_frame)
            IN  /\ shot_time' = now_time
                /\ imwrites' = imwrites + 1
                /\ imwrite_name' = filename
                /\ imwrite_data' = bgr_frame
                /\ imwrite_ok' = written
                /\ IF written
                   THEN /\ files' = files \cup {filename}
                        /\ dialog' = "shot_ok"
                        /\ dialog_text' = filename
                   ELSE /\ dialog' = "shot_write_failed"
                        /\ UNCHANGED << files, dialog_text >>
    /\ UNCHANGED << pc, exit_code, dev_res, dev_fps, capVars, appVars, shown,
                    tickVars, closes >>

(***************************************************************************)
(* window_close_callback, lines 144-152.  Deleting an image that was       *)
(* already deleted is undefined: the process aborts there or goes on.      *)
(***************************************************************************)
Closed_keeps_running == is_running

Closed_is_running == FALSE

WindowCloseCallback ==
    /\ pc = "running"
    /\ closes < MaxCloses
    /\ closes' = closes + 1
    /\ is_running' = Closed_is_running
    /\ cap_open' = FALSE
    /\ cap_releases' = IF cap_open THEN cap_releases + 1 ELSE cap_releases
    /\ IF fltk_img = 0
       THEN /\ shown' = FALSE
            /\ UNCHANGED << pc, box_image, live_imgs, double_deletes >>
       ELSE /\ box_image' = 0
            /\ IF fltk_img \in live_imgs
               THEN /\ live_imgs' = DeleteImage(live_imgs, fltk_img)
                    /\ shown' = FALSE
                    /\ UNCHANGED << pc, double_deletes >>
               ELSE /\ double_deletes' = double_deletes + 1
                    /\ \E aborted \in BOOLEAN :
                          IF aborted
                          THEN pc' = "crashed" /\ UNCHANGED shown
                          ELSE shown' = FALSE /\ UNCHANGED pc
                    /\ UNCHANGED live_imgs
    /\ UNCHANGED << exit_code, dev_res, dev_fps, cap_mode, cap_fps, res_probes,
                    fps_probes, optimal_width, optimal_height, optimal_fps, frame,
                    frame_rgb, cached_frame, fltk_img, img_next, tickVars, shotVars,
                    dialog >>

(***************************************************************************)
(* main, line 200: Fl::run() returns once no window is shown.              *)
(***************************************************************************)
RunReturns ==
    /\ pc = "running"
    /\ ~shown
    /\ pc' = "exited"
    /\ UNCHANGED << exit_code, dev_res, dev_fps, capVars, appVars, shown, tickVars,
                    shotVars, closes, dialog >>

Next ==
    \/ Open
    \/ DetectResolutions
    \/ DetectFps
    \/ Setup
    \/ UpdateFrame
    \/ ScreenshotCallback
    \/ WindowCloseCallback
    \/ RunReturns

Spec == Init /\ [][Next]_vars

(***************************************************************************)
(* detect_resolutions over every device of AllResDevices, and detect_fps   *)
(* over every device of AllFpsDevices: main up to the end of the probing.  *)
(***************************************************************************)
InitRes ==
    /\ InitApp
    /\ dev_res \in AllResDevices
    /\ dev_fps = FpsDevice(3 .. 7, 0)

NextRes ==
    \/ Open
    \/ DetectResolutions

SpecRes == InitRes /\ [][NextRes]_vars

InitFps ==
    /\ InitApp
    /\ dev_res = ResDevice(3 .. 7)
    /\ dev_fps \in AllFpsDevices

NextFps ==
    \/ Open
    \/ DetectResolutions
    \/ DetectFps

SpecFps == InitFps /\ [][NextFps]_vars

(***************************************************************************)
(* Properties of the capability probing.                                   *)
(***************************************************************************)
Min(S) == CHOOSE x \in S : \A y \in S : x <= y

\* The candidates the device reports back exactly as requested.
ExactCandidates == { i \in Candidates : dev_res[i] = resolutions[i] }

\* The frame-rate candidates whose read-back is less than 1.0 from the request.
TolerantCandidates ==
    { i \in FpsIndexes : dev_fps[i] - fps_candidates[i] < FpsTolerance
                         /\ fps_candidates[i] - dev_fps[i] < FpsTolerance }

ResProbed == pc = "res_done"

FpsProbed == pc = "fps_done"

FirstExactSelected ==
    ExactCandidates # {} =>
        /\ << optimal_width, optimal_height >> = resolutions[Min(ExactCandidates)]
        /\ res_probes = Min(ExactCandidates)

\* C1, as claimed: detect_resolutions selects the first candidate whose read-back
\* equals the request and stops probing there; if no candidate matches, the
\* negotiated resolution equals the read-back of the last applied candidate.
C1_Original ==
    ResProbed =>
        /\ FirstExactSelected
        /\ ExactCandidates = {} =>
              << optimal_width, optimal_height >> = dev_res[Len(resolutions)]

\* C1, amended: detect_resolutions selects the first candidate whose read-back
\* equals the request and stops probing there; if no candidate matches, every
\* candidate was requested and the negotiated resolution keeps its initial value
\* 640x480, whatever the device reports after the last request.
C1_Amended ==
    ResProbed =>
        /\ FirstExactSelected
        /\ ExactCandidates = {} =>
              /\ << optimal_width, optimal_height >> = << DefaultWidth, DefaultHeight >>
              /\ res_probes = Len(resolutions)
              /\ cap_mode = dev_res[Len(resolutions)]

C1_Witness ==
    /\ ResProbed
    /\ ExactCandidates = {}
    /\ dev_res[Len(resolutions)] = << 320, 240 >>
    /\ optimal_width = 640

\* C7: detect_fps sets optimal_fps to the read-back of the first candidate, in the
\* order 60,50,30,25,24,15,10, whose read-back is less than 1.0 from the request,
\* and stops probing there; if there is none, optimal_fps is what the device
\* reports after the last request.  For the read-backs 59.9, 49.0, 30.0 to the
\* requests 60, 50, 30 the selection is 59.9.
C7_FirstTolerantFps ==
    FpsProbed =>
        /\ TolerantCandidates # {} =>
              /\ optimal_fps = dev_fps[Min(TolerantCandidates)]
              /\ fps_probes = Min(TolerantCandidates)
        /\ TolerantCandidates = {} =>
              /\ optimal_fps = dev_fps[Len(fps_candidates)]
              /\ fps_probes = Len(fps_candidates)
        /\ (dev_fps[1] = 599 /\ dev_fps[2] = 490 /\ dev_fps[3] = 300) =>
              optimal_fps = 599

C7_Witness ==
    /\ FpsProbed
    /\ dev_fps[1] = 590
    /\ dev_fps[2] = 490
    /\ dev_fps[3] = 299
    /\ optimal_fps = 299
    /\ fps_probes = 3

Area(res) == res[1] * res[2]

\* C8, as claimed: whatever set of candidates the device accepts exactly, the
\* negotiated resolution is the largest accepted candidate of the list.
C8_LargestAccepted ==
    (ResProbed /\ ExactCandidates # {}) =>
        \A i \in ExactCandidates :
            Area(<< optimal_width, optimal_height >>) >= Area(resolutions[i])

(***************************************************************************)
(* Properties of the run loop: update_frame, screenshot_callback and       *)
(* window_close_callback.                                                  *)
(***************************************************************************)
TickStep == ticks' = ticks + 1

SnapStep == snaps' = snaps + 1

CloseStep == closes' = closes + 1

\* C2, as claimed: while no update_frame has completed successfully, a snapshot
\* request reports failure and writes no file (cv::imwrite is not called).
C2_NoSnapshotBeforeFrame ==
    frames_done = 0 =>
        /\ imwrites = 0
        /\ files = {}
        /\ dialog # "shot_ok"

\* C3, as claimed: a second invocation of window_close_callback does nothing: the
\* device session is not released a second time and the image is not deleted a
\* second time.
C3_SecondCloseNoOp ==
    closes >= 2 =>
        /\ cap_releases <= 1
        /\ double_deletes = 0
        /\ pc # "crashed"

\* C4: once is_running is false it stays false; from then on no tick schedules
\* another tick, latches, decodes or changes the Display Buffer; and the window
\* is hidden by nothing but window_close_callback, so after a capture or decode
\* failure it stays shown until the close action.
C4_StoppedStays ==
    [][ /\ ~is_running =>
            /\ ~is_running'
            /\ timeouts' <= timeouts
            /\ grabs' = grabs
            /\ retrieves' = retrieves
            /\ frames_done' = frames_done
            /\ cached_frame' = cached_frame
        /\ (shown /\ ~shown') => CloseStep
        /\ (dialog' \in {"grab_failed", "decode_failed"} /\ closes' = 0
              /\ pc' = "running") => shown'
      ]_vars

C4_Witness ==
    /\ ~is_running
    /\ ticks > grabs
    /\ frames_done >= 1
    /\ timeouts = 0

\* C5: in a tick whose grab() fails, retrieve() is not called, is_running becomes
\* false, the Display Buffer and the image are unchanged and no tick is scheduled.
C5_GrabFailure ==
    [][ (TickStep /\ grabs' = grabs + 1 /\ dialog' = "grab_failed") =>
            /\ retrieves' = retrieves
            /\ ~is_running'
            /\ cached_frame' = cached_frame
            /\ fltk_img' = fltk_img
            /\ box_image' = box_image
            /\ live_imgs' = live_imgs
            /\ timeouts' = timeouts - 1
      ]_vars

C5_Witness ==
    /\ dialog = "grab_failed"
    /\ grabs = frames_done + 1
    /\ retrieves = frames_done
    /\ frames_done >= 1
    /\ ~is_running
    /\ closes = 0

\* C6: in a tick whose grab() succeeds and whose retrieve() fails, is_running
\* becomes false, the Display Buffer keeps the value it had before the tick and no
\* tick is scheduled.
C6_DecodeFailure ==
    [][ (TickStep /\ retrieves' = retrieves + 1 /\ dialog' = "decode_failed") =>
            /\ grabs' = grabs + 1
            /\ ~is_running'
            /\ cached_frame' = cached_frame
            /\ timeouts' = timeouts - 1
      ]_vars

C6_Witness ==
    /\ dialog = "decode_failed"
    /\ retrieves = frames_done + 1
    /\ grabs = retrieves
    /\ frames_done >= 1
    /\ ~is_running
    /\ closes = 0

\* C9: from the start of the Frame Pump on, whatever ticks, snapshot requests and
\* close actions happened, the Display Buffer has the negotiated width and height.
C9_DisplayBufferSize ==
    pc \in {"running", "exited", "crashed"} =>
        /\ cached_frame.w = optimal_width
        /\ cached_frame.h = optimal_height

C9_Witness ==
    /\ frames_done >= 2
    /\ snaps >= 1
    /\ closes >= 1
    /\ cached_frame.px \in FramePixels
    /\ cached_frame.w = optimal_width

\* The value a decimal numeral denotes, read digit by digit; -1 for a sequence
\* that is no plain numeral of a natural number.
DigitValue(c) ==
    CASE c = "0" -> 0 [] c = "1" -> 1 [] c = "2" -> 2 [] c = "3" -> 3
      [] c = "4" -> 4 [] c = "5" -> 5 [] c = "6" -> 6 [] c = "7" -> 7
      [] c = "8" -> 8 [] c = "9" -> 9 [] OTHER -> -1

RECURSIVE NumeralValue(_, _)
NumeralValue(cs, acc) ==
    IF cs = << >> THEN acc
    ELSE IF DigitValue(Head(cs)) < 0 THEN -1
    ELSE NumeralValue(Tail(cs), 10 * acc + DigitValue(Head(cs)))

\* name is "screenshot_", the decimal numeral of t without leading zeros, ".png".
IsScreenshotNameOf(name, t) ==
    LET n == Len(name)
        numeral == SubSeq(name, 12, n - 4)
    IN  /\ n >= 16
        /\ SubSeq(name, 1, 11) =
              << "s", "c", "r", "e", "e", "n", "s", "h", "o", "t", "_" >>
        /\ SubSeq(name, n - 3, n) = << ".", "p", "n", "g" >>
        /\ (Len(numeral) > 1 => Head(numeral) # "0")
        /\ NumeralValue(numeral, 0) = t

\* C10: a snapshot request with a non-empty Display Buffer at wall-clock time T
\* calls cv::imwrite exactly once, for the file screenshot_<T>.png; if the write
\* succeeds the success dialog names exactly that file, and if it fails a failure
\* is reported, with no second attempt.
C10_OneWriteNamedByTime ==
    [][ (SnapStep /\ ~MatEmpty(cached_frame)) =>
            /\ imwrites' = imwrites + 1
            /\ IsScreenshotNameOf(imwrite_name', shot_time')
            /\ imwrite_ok' =>
                  /\ dialog' = "shot_ok"
                  /\ dialog_text' = imwrite_name'
                  /\ imwrite_name' \in files'
            /\ ~imwrite_ok' =>
                  /\ dialog' = "shot_write_failed"
                  /\ files' = files
      ]_vars

C10_Witness ==
    /\ frames_done >= 1
    /\ imwrites = 2
    /\ shot_time = 1762194000
    /\ dialog = "shot_ok"
    /\ Cardinality(files) = 1

\* C11: a snapshot request, whether it succeeds or fails (nothing to save, or the
\* write fails), leaves the Display Buffer, the image, is_running, the device
\* session and the pending timeouts as they were.
C11_SnapshotFrame ==
    [][ SnapStep =>
            /\ cached_frame' = cached_frame
            /\ frame' = frame
            /\ frame_rgb' = frame_rgb
            /\ fltk_img' = fltk_img
            /\ box_image' = box_image
            /\ live_imgs' = live_imgs
            /\ is_running' = is_running
            /\ cap_open' = cap_open
            /\ cap_mode' = cap_mode
            /\ cap_fps' = cap_fps
            /\ cap_releases' = cap_releases
            /\ timeouts' = timeouts
            /\ timeout_delay' = timeout_delay
            /\ shown' = shown
      ]_vars

C11_Witness ==
    /\ snaps = 2
    /\ imwrites = 2
    /\ Cardinality(files) = 1
    /\ dialog = "shot_write_failed"
    /\ frames_done >= 1
    /\ is_running
    /\ timeouts = 1

\* C12: if the device cannot be opened, main returns a non-zero code without
\* probing, creating the window or adding a timeout; if it can be opened, the
\* process does not end before window_close_callback has run.
C12_ExitCodes ==
    /\ dialog = "open_failed" => pc = "open_failed"
    /\ pc = "open_failed" =>
          /\ exit_code # 0
          /\ ~cap_open
          /\ res_probes = 0
          /\ fps_probes = 0
          /\ MatEmpty(cached_frame)
          /\ ~shown
          /\ timeouts = 0
          /\ ticks = 0
    /\ pc \in {"exited", "crashed"} =>
          /\ closes >= 1
          /\ res_probes >= 1
          /\ exit_code = 0

C12_Witness ==
    /\ pc = "open_failed"
    /\ exit_code = -1
    /\ dialog = "open_failed"

\* The device of the end-to-end case: it reports back neither 3840x2160 nor
\* 2560x1440, and no rate within tolerance of 60 or 50, and it reports back
\* exactly 1920x1080 and 30 fps.
EndToEndDevice ==
    /\ dev_res[1] # << 3840, 2160 >>
    /\ dev_res[2] # << 2560, 1440 >>
    /\ dev_res[3] = << 1920, 1080 >>
    /\ Abs(dev_fps[1] - 600) >= 10
    /\ Abs(dev_fps[2] - 500) >= 10
    /\ dev_fps[3] = 300

\* C13: with that device, startup yields optimal_width = 1920, optimal_height =
\* 1080 and optimal_fps = 30, and from the first successful tick on the Display
\* Buffer holds a decoded frame of exactly 1920x1080.
C13_EndToEnd ==
    (EndToEndDevice /\ pc \in {"fps_done", "running", "exited", "crashed"}) =>
        /\ optimal_width = 1920
        /\ optimal_height = 1080
        /\ optimal_fps = 300
        /\ frames_done >= 1 =>
              /\ cached_frame.w = 1920
              /\ cached_frame.h = 1080
              /\ cached_frame.px \in FramePixels
              /\ cached_frame.order = "RGB"

C13_Witness ==
    /\ EndToEndDevice
    /\ frames_done = 1
    /\ ticks = 1
    /\ cached_frame.w = 1920
    /\ cached_frame.h = 1080

\* C14: at most one Fl_RGB_Image exists at any time (the images created and not
\* yet deleted are never more than one); no deleted image is attached to the
\* display box; and after any number of successful ticks, until the window is
\* closed, exactly one image exists: the newest, which app.fltk_img and the
\* display box hold, every earlier one having been deleted.
C14_OneImage ==
    /\ Cardinality(live_imgs) <= 1
    /\ live_imgs \subseteq 1 .. img_next
    /\ box_image # 0 => box_image \in live_imgs
    /\ img_next = frames_done
    /\ (frames_done >= 1 /\ closes = 0) =>
          /\ live_imgs = {img_next}
          /\ fltk_img = img_next
          /\ box_image = img_next
    /\ frames_done = 0 => (fltk_img = 0 /\ box_image = 0 /\ live_imgs = {})

C14_Witness ==
    /\ frames_done = 3
    /\ closes = 0
    /\ live_imgs = {3}
    /\ box_image = 3
    /\ double_deletes = 0

\* C15: window_close_callback sets is_running to false, releases the device
\* session, detaches and deletes the image and hides the window; a tick that was
\* pending at the close and fires after it returns without calling grab() or
\* retrieve(), without touching the image and without adding a timeout.
C15_CloseThenTick ==
    [][ /\ CloseStep =>
            /\ ~is_running'
            /\ ~cap_open'
            /\ cap_open => cap_releases' = cap_releases + 1
            /\ box_image' = 0
            /\ live_imgs' = {}
            /\ ~shown'
        /\ (TickStep /\ closes >= 1) =>
            /\ grabs' = grabs
            /\ retrieves' = retrieves
            /\ fltk_img' = fltk_img
            /\ box_image' = box_image
            /\ live_imgs' = live_imgs
            /\ double_deletes' = double_deletes
            /\ img_next' = img_next
            /\ cached_frame' = cached_frame
            /\ timeouts' = timeouts - 1
      ]_vars

C15_Witness ==
    /\ closes = 1
    /\ ticks = frames_done + 1
    /\ grabs = frames_done
    /\ frames_done >= 1
    /\ fltk_img # 0
    /\ live_imgs = {}
    /\ box_image = 0
    /\ ~cap_open
    /\ cap_releases = 1
    /\ ~shown
    /\ timeouts = 0
    /\ pc = "running"

\* C16, as claimed: the first tick is added at startup with no delay, and as long
\* as the window is not closed and no grab() or retrieve() has failed, a tick is
\* pending whose delay elapses, so that update_frame can fire again (within the
\* model's bound on the number of ticks): the pump never stops on its own.
C16_PumpKeepsRunning ==
    /\ (pc = "running" /\ ticks = 0) => (timeouts = 1 /\ timeout_delay[1] = 0)
    /\ (pc = "running" /\ is_running /\ closes = 0) =>
          /\ timeouts >= 1
          /\ ticks < MaxTicks => ENABLED UpdateFrame

\* C17, as claimed: after detect_fps the negotiated optimal_fps is strictly
\* positive for every device, so that 1 / optimal_fps is a finite positive delay.
C17_PositiveFps ==
    pc \in {"fps_done", "running", "exited", "crashed"} => optimal_fps > 0

\* The timeouts added so far: each firing of update_frame consumes one.
Scheduled == timeouts + ticks

\* C18: at most one update_frame timeout is pending in every reachable state; one
\* is added at startup and one by each tick that runs to its end, so the timeouts
\* added are one more than the completed ticks; screenshot_callback and
\* window_close_callback add none, and a tick that does not complete adds none.
C18_OnePendingTick ==
    [][ /\ timeouts' <= 1
        /\ timeouts' >= 0
        /\ pc' \in {"running", "exited", "crashed"} => Scheduled' = 1 + frames_done'
        /\ pc' \in {"start", "opened", "res_done", "fps_done", "open_failed"} =>
              Scheduled' = 0
        /\ (SnapStep \/ CloseStep) => timeouts' = timeouts
        /\ (TickStep /\ frames_done' = frames_done) => timeouts' = timeouts - 1
      ]_vars

C18_Witness ==
    /\ frames_done = 2
    /\ ticks = 2
    /\ timeouts = 1
    /\ snaps >= 1
    /\ closes >= 1

====
